---- MODULE Spec2Model ----
(***************************************************************************)
(* MiniMax T2A command-line client: skills/minimax-tts/scripts/tts.py.     *)
(*                                                                         *)
(* One run of main() is modelled as a sequential process whose position is *)
(* pc.  Python dicts (the argparse namespace, the request payload, the     *)
(* parsed JSON response) are functions whose DOMAIN is the set of keys     *)
(* present, so dict.get(k, default) and d[k] behave as in the source.      *)
(* Text and hex strings are sequences of one-character strings; bytes are  *)
(* sequences of integers in 0..255.  The file system is a function from    *)
(* path to file content; it is assumed not to fail on open or write.       *)
(***************************************************************************)
EXTENDS Integers, Sequences, FiniteSets, TLC

VARIABLES
    pc,          \* position of the run inside main()
    environ,     \* os.environ restricted to MINIMAX_API_KEY
    args,        \* argparse namespace (line 29)
    api_key,     \* line 31
    payload,     \* lines 41-61
    req,         \* the Request object, lines 64-72
    data,        \* parsed response body, line 76
    audio_bytes, \* line 90
    fs,          \* file system: path -> content (sequence of bytes)
    fs0,         \* the file system when the run started
    transport,   \* what urlopen and resp.read() produced
    stdout,      \* printed lines, in order
    wire,        \* requests that reached the network, in order
    effects,     \* history of side effects: "post", "open", "write", "report"
    uncaught,    \* name of the exception that escaped main(), or None
    exitStatus   \* process exit status, -1 while the process runs

vars == <<pc, environ, args, api_key, payload, req, data, audio_bytes, fs,
          fs0, transport, stdout, wire, effects, uncaught, exitStatus>>

-----------------------------------------------------------------------------
(* Python values *)

\* Python's None; no input string equals it.
None == "<None>"

EmptyDict == [k \in {} |-> None]

\* dict.get(k, default)
Get(d, k, default) == IF k \in DOMAIN d THEN d[k] ELSE default

\* variant: only the empty string is falsy
MutTruthy(x) == x # ""

\* truth value of an Optional[str]: None and "" are falsy
Truthy(x) == x # None /\ x # ""

\* str.isspace() on one character
WhitespaceChars == {" ", "\t", "\n", "\r"}

RECURSIVE LStrip(_)
LStrip(s) ==
    IF s # <<>> /\ Head(s) \in WhitespaceChars THEN LStrip(Tail(s)) ELSE s

RECURSIVE RStrip(_)
RStrip(s) ==
    IF s # <<>> /\ s[Len(s)] \in WhitespaceChars
    THEN RStrip(SubSeq(s, 1, Len(s) - 1))
    ELSE s

\* variant: the text is taken as given
MutStrip(s) == s

\* str.strip()
Strip(s) == RStrip(LStrip(s))

-----------------------------------------------------------------------------
(* Hex encoding: bytes.hex() on the server side, bytes.fromhex() at line 90 *)

HexDigits == <<"0", "1", "2", "3", "4", "5", "6", "7",
               "8", "9", "a", "b", "c", "d", "e", "f">>

UpperHexDigits == <<"0", "1", "2", "3", "4", "5", "6", "7",
                    "8", "9", "A", "B", "C", "D", "E", "F">>

\* value of one hex digit, upper or lower case; 16 for any other character
HexVal(c) ==
    IF \E i \in 1..16 : HexDigits[i] = c
    THEN (CHOOSE i \in 1..16 : HexDigits[i] = c) - 1
    ELSE IF \E i \in 1..16 : UpperHexDigits[i] = c
    THEN (CHOOSE i \in 1..16 : UpperHexDigits[i] = c) - 1
    ELSE 16

\* bytes.hex(): two lower-case digits per byte, high nibble first
RECURSIVE HexEncode(_)
HexEncode(B) ==
    IF B = <<>> THEN <<>>
    ELSE <<HexDigits[(Head(B) \div 16) + 1], HexDigits[(Head(B) % 16) + 1]>>
         \o HexEncode(Tail(B))

\* variant: low nibble first
MutByteOf(top, bot) == bot * 16 + top

\* one byte from its two digit values
ByteOf(top, bot) == top * 16 + bot

\* variant: decoding stops at the first character that is not a hex digit
\* and keeps the bytes decoded so far
RECURSIVE MutFromHex(_)
MutFromHex(s) ==
    LET t == LStrip(s) IN
    IF Len(t) < 2 \/ HexVal(t[1]) >= 16 \/ HexVal(t[2]) >= 16
    THEN [ok |-> TRUE, bytes |-> <<>>]
    ELSE [ok |-> TRUE,
          bytes |-> <<ByteOf(HexVal(t[1]), HexVal(t[2]))>>
                    \o MutFromHex(SubSeq(t, 3, Len(t))).bytes]

\* bytes.fromhex(): ASCII whitespace is skipped between bytes, the two digits
\* of a byte must be adjacent, any other character raises ValueError
RECURSIVE FromHex(_)
FromHex(s) ==
    LET t == LStrip(s) IN
    IF t = <<>> THEN [ok |-> TRUE, bytes |-> <<>>]
    ELSE IF HexVal(t[1]) >= 16 THEN [ok |-> FALSE, bytes |-> <<>>]
    ELSE IF Len(t) < 2 \/ HexVal(t[2]) >= 16 THEN [ok |-> FALSE, bytes |-> <<>>]
    ELSE LET rest == FromHex(SubSeq(t, 3, Len(t))) IN
         IF rest.ok
         THEN [ok |-> TRUE,
               bytes |-> <<ByteOf(HexVal(t[1]), HexVal(t[2]))>> \o rest.bytes]
         ELSE rest

-----------------------------------------------------------------------------
(* Inputs of a run *)

\* length bound of the byte sequences the server hex-encodes into data.audio
MaxBytes == 2

ByteSamples == {15, 171}

RECURSIVE SeqsUpTo(_, _)
SeqsUpTo(S, n) ==
    IF n = 0 THEN {<<>>}
    ELSE LET shorter == SeqsUpTo(S, n - 1) IN
         shorter \cup {<<x>> \o t : x \in S, t \in {u \in shorter : Len(u) = n - 1}}

ByteSeqs == SeqsUpTo(ByteSamples, MaxBytes)

\* --voice choices, lines 15-17
VoiceChoices == {"male-qn-qingse", "female-shaonv", "female-yujie",
                 "male-qn-jingying", "presenter_male", "presenter_female"}

\* --emotion choices, line 20
EmotionChoices == {"happy", "sad", "angry", "fearful", "disgusted",
                   "surprised", "calm", "whisper"}

TextSamples == {<<>>, <<" ", " ", " ">>, <<"\t", "\n">>,
                <<"h", "i">>, <<" ", "h", " ", "i", "\n">>}

OutputSamples == {"tts_output.mp3", "hello.mp3"}

\* what parser.parse_args() can return, lines 13-29: every attribute is set,
\* emotion is None unless --emotion was given, the others have defaults
ArgSpace ==
    [text    : TextSamples,
     voice   : {"male-qn-qingse", "presenter_female"} \cap VoiceChoices,
     emotion : {None} \cup ({"happy"} \cap EmotionChoices),
     speed   : {"1.0"},
     output  : OutputSamples,
     model   : {"speech-2.8-hd"}]

Environs == {EmptyDict,
             [MINIMAX_API_KEY |-> ""],
             [MINIMAX_API_KEY |-> "sk-test"]}

OldContent == <<1, 2, 3>>

InitialFileSystems == {EmptyDict, [p \in OutputSamples |-> OldContent]}

\* data.audio strings: hex encodings of byte sequences, strings fromhex
\* accepts although hex() never produces them, and malformed strings
AudioStrings ==
    {HexEncode(B) : B \in ByteSeqs}
    \cup {<<"0", "F">>, <<" ", "a", "B", "\n">>, <<"0", "1", " ", "f", "e">>}
    \cup {<<"0">>, <<"z", "z">>, <<"0", "g">>, <<"f", " ", "f">>, <<"0", "1", "2">>}

BaseResps ==
    {EmptyDict,
     [status_msg |-> "no status"],
     [status_code |-> 0],
     [status_code |-> 0, status_msg |-> "success"],
     [status_code |-> 1004],
     [status_code |-> 1004, status_msg |-> "login fail"],
     [status_code |-> -1, status_msg |-> "internal"]}

Datas == {EmptyDict} \cup {[audio |-> a] : a \in AudioStrings}

ExtraSample == [audio_length |-> 1500, audio_size |-> 24000, usage_characters |-> 2]

ExtraInfos == {[k \in S |-> ExtraSample[k]] : S \in SUBSET DOMAIN ExtraSample}

\* an optional member is <<>> (absent) or <<v>>
Opt(S) == {<<>>} \cup {<<v>> : v \in S}

\* a JSON object with the members that are present
JsonObject(members) ==
    [k \in {m \in DOMAIN members : members[m] # <<>>} |-> members[k][1]]

\* base_resp values the status check lets through
PassingBaseResps == {b \in BaseResps : Get(b, "status_code", -1) = 0}

\* response bodies: extra_info is read on the success path only, so it takes
\* every shape with a passing base_resp and two shapes (absent, complete)
\* with the others
Responses ==
    {JsonObject([base_resp |-> b, data |-> d, extra_info |-> e]) :
        b \in Opt(PassingBaseResps), d \in Opt(Datas), e \in Opt(ExtraInfos)}
    \cup
    {JsonObject([base_resp |-> b, data |-> d, extra_info |-> e]) :
        b \in Opt(BaseResps \ PassingBaseResps), d \in Opt(Datas),
        e \in Opt({ExtraSample})}

\* what urlopen(req, timeout=60) followed by resp.read() can produce
TransportOutcomes ==
    {[kind |-> "HTTPError", code |-> c, body |-> b] :
        c \in {500, 401}, b \in {"server error", ""}}
    \cup {[kind |-> "URLError"], [kind |-> "timeout"], [kind |-> "NotJson"]}
    \cup {[kind |-> "json", json |-> r] : r \in Responses}

-----------------------------------------------------------------------------
(* The run of main() *)

\* before the POST there is neither a response nor an exception
NoTransport == [kind |-> "none"]

Init ==
    /\ pc = "Start"
    /\ environ \in Environs
    /\ fs \in InitialFileSystems
    /\ fs0 = fs
    /\ transport = NoTransport
    /\ args = EmptyDict
    /\ api_key = None
    /\ payload = EmptyDict
    /\ req = EmptyDict
    /\ data = EmptyDict
    /\ audio_bytes = <<>>
    /\ stdout = <<>>
    /\ wire = <<>>
    /\ effects = <<>>
    /\ uncaught = None
    /\ exitStatus = -1

\* variant: once a request has been sent, a failure sends it again
MutPrintAndExit(lines) ==
    /\ stdout' = stdout \o lines
    /\ IF wire # <<>>
       THEN pc' = "Send" /\ UNCHANGED <<exitStatus, uncaught>>
       ELSE pc' = "Fail" /\ exitStatus' = 1 /\ uncaught' = None

\* sys.exit(1) after printing the given lines
PrintAndExit(lines) ==
    /\ stdout' = stdout \o lines
    /\ pc' = "Fail"
    /\ exitStatus' = 1
    /\ uncaught' = None

\* an exception nothing catches: the interpreter prints a traceback on stderr
\* and the process ends with status 1
Raise(exc) ==
    /\ pc' = "Fail"
    /\ exitStatus' = 1
    /\ uncaught' = exc
    /\ stdout' = stdout

\* line 33
KeyDiagnostic == <<"ERROR: MINIMAX_API_KEY environment variable not set">>

\* line 37
EmptyTextDiagnostic == <<"ERROR: Empty text provided">>

\* line 29
ParseArgs ==
    /\ pc = "Start"
    /\ args' \in ArgSpace
    /\ pc' = "ValidateConfig"
    /\ UNCHANGED <<environ, api_key, payload, req, data, audio_bytes, fs,
                   fs0, transport, stdout, wire, effects, uncaught, exitStatus>>

\* lines 31-38
ValidateConfig ==
    /\ pc = "ValidateConfig"
    /\ api_key' = Get(environ, "MINIMAX_API_KEY", None)
    /\ IF ~Truthy(api_key')
       THEN PrintAndExit(<<KeyDiagnostic>>)
       ELSE IF Strip(args.text) = <<>>
       THEN PrintAndExit(<<EmptyTextDiagnostic>>)
       ELSE /\ pc' = "BuildPayload"
            /\ UNCHANGED <<stdout, uncaught, exitStatus>>
    /\ UNCHANGED <<environ, args, payload, req, data, audio_bytes, fs,
                   fs0, transport, wire, effects>>

\* variant: emotion is always a member, None when --emotion was not given
MutVoiceSetting(a) ==
    [voice_id |-> a.voice, speed |-> a.speed, vol |-> "1.0", pitch |-> 0,
     emotion |-> a.emotion]

\* lines 41-48
VoiceSetting(a) ==
    LET base == [voice_id |-> a.voice, speed |-> a.speed, vol |-> "1.0", pitch |-> 0]
    IN  IF Truthy(a.emotion) THEN base @@ ("emotion" :> a.emotion) ELSE base

\* lines 50-61
Payload(a) ==
    [model         |-> a.model,
     text          |-> a.text,
     stream        |-> FALSE,
     voice_setting |-> VoiceSetting(a),
     audio_setting |-> [sample_rate |-> 32000, bitrate |-> 128000,
                        format |-> "mp3", channel |-> 1]]

\* json.dumps of a dict of dicts, line 66: one member per key that is present,
\* read here as the set of paths from the root to the scalar members
JsonPaths(obj) ==
    UNION {IF k \in {"voice_setting", "audio_setting"}
           THEN {<<k, j>> : j \in DOMAIN obj[k]}
           ELSE {<<k>>} : k \in DOMAIN obj}

\* the value json.dumps writes at a path
JsonAt(obj, path) ==
    IF Len(path) = 1 THEN obj[path[1]] ELSE obj[path[1]][path[2]]

\* lines 64-72
Request(p, key) ==
    [url     |-> "https://api.minimaxi.com/v1/t2a_v2",
     method  |-> "POST",
     headers |-> [ContentType |-> "application/json",
                  Authorization |-> <<"Bearer", key>>],
     body    |-> [path \in JsonPaths(p) |-> JsonAt(p, path)]]

\* lines 40-72
BuildPayload ==
    /\ pc = "BuildPayload"
    /\ payload' = Payload(args)
    /\ req' = Request(payload', api_key)
    /\ pc' = "Send"
    /\ UNCHANGED <<environ, args, api_key, data, audio_bytes, fs, fs0,
                   transport, stdout, wire, effects, uncaught, exitStatus>>

\* lines 74-80: the POST and what the try statement does with its outcome
Send ==
    /\ pc = "Send"
    /\ wire' = Append(wire, req)
    /\ effects' = Append(effects, "post")
    /\ \E out \in TransportOutcomes :
          /\ transport' = out
          /\ \/ /\ out.kind = "json"
                /\ data' = out.json
                /\ pc' = "CheckStatus"
                /\ UNCHANGED <<stdout, uncaught, exitStatus>>
             \/ /\ out.kind = "HTTPError"
                /\ PrintAndExit(<< <<"ERROR: API returned", out.code>>, <<out.body>> >>)
                /\ data' = data
             \/ /\ out.kind = "URLError"
                /\ Raise("URLError")
                /\ data' = data
             \/ /\ out.kind = "timeout"
                /\ Raise("TimeoutError")
                /\ data' = data
             \/ /\ out.kind = "NotJson"
                /\ Raise("JSONDecodeError")
                /\ data' = data
    /\ UNCHANGED <<environ, args, api_key, payload, req, audio_bytes, fs, fs0>>

\* variant: a missing status_code counts as 0
MutStatusCode(d) == Get(Get(d, "base_resp", EmptyDict), "status_code", 0)

\* line 83
StatusCode(d) == Get(Get(d, "base_resp", EmptyDict), "status_code", -1)

\* line 85
StatusMsg(d) == Get(Get(d, "base_resp", EmptyDict), "status_msg", "Unknown error")

\* variant: only positive codes are errors
MutStatusFailed(code) == code > 0

\* line 84
StatusFailed(code) == code # 0

\* lines 83-86
CheckStatus ==
    /\ pc = "CheckStatus"
    /\ IF StatusFailed(StatusCode(data))
       THEN PrintAndExit(<< <<"ERROR:", StatusMsg(data)>> >>)
       ELSE /\ pc' = "DecodeAudio"
            /\ UNCHANGED <<stdout, uncaught, exitStatus>>
    /\ UNCHANGED <<environ, args, api_key, payload, req, data, audio_bytes,
                   fs, fs0, transport, wire, effects>>

\* lines 89-90
DecodeAudio ==
    /\ pc = "DecodeAudio"
    /\ IF "data" \notin DOMAIN data \/ "audio" \notin DOMAIN data["data"]
       THEN Raise("KeyError") /\ audio_bytes' = audio_bytes
       ELSE LET decoded == FromHex(data["data"]["audio"]) IN
            IF ~decoded.ok
            THEN Raise("ValueError") /\ audio_bytes' = audio_bytes
            ELSE /\ audio_bytes' = decoded.bytes
                 /\ pc' = "OpenFile"
                 /\ UNCHANGED <<stdout, uncaught, exitStatus>>
    /\ UNCHANGED <<environ, args, api_key, payload, req, data, fs, fs0,
                   transport, wire, effects>>

\* open(path, "wb"): the file exists and is empty
Truncate(files, path) ==
    [p \in DOMAIN files \cup {path} |-> IF p = path THEN <<>> ELSE files[p]]

\* f.write(b) on the file just opened for writing
WriteBytes(files, path, b) ==
    [files EXCEPT ![path] = files[path] \o b]

\* line 92
OpenFile ==
    /\ pc = "OpenFile"
    /\ fs' = Truncate(fs, args.output)
    /\ effects' = Append(effects, "open")
    /\ pc' = "WriteFile"
    /\ UNCHANGED <<environ, args, api_key, payload, req, data, audio_bytes,
                   fs0, transport, stdout, wire, uncaught, exitStatus>>

\* line 93 and the end of the with block
WriteFile ==
    /\ pc = "WriteFile"
    /\ fs' = WriteBytes(fs, args.output, audio_bytes)
    /\ effects' = Append(effects, "write")
    /\ pc' = "ReportSuccess"
    /\ UNCHANGED <<environ, args, api_key, payload, req, data, audio_bytes,
                   fs0, transport, stdout, wire, uncaught, exitStatus>>

\* os.path.abspath of a relative path: the working directory and the path
AbsPath(path) == <<"cwd", path>>

\* variant: the three numbers are read only when all of them are present
MutReport(d, a) ==
    LET extra == Get(d, "extra_info", EmptyDict)
        full  == {"audio_length", "audio_size", "usage_characters"} \subseteq DOMAIN extra
    IN
    << <<"SUCCESS: Audio saved to", AbsPath(a.output)>>,
       <<"Duration:", IF full THEN extra["audio_length"] ELSE 0, "ms">>,
       <<"Size:", IF full THEN extra["audio_size"] ELSE 0, "bytes">>,
       <<"Characters:", IF full THEN extra["usage_characters"] ELSE 0>> >>

\* lines 96-100
Report(d, a) ==
    LET extra == Get(d, "extra_info", EmptyDict) IN
    << <<"SUCCESS: Audio saved to", AbsPath(a.output)>>,
       <<"Duration:", Get(extra, "audio_length", 0), "ms">>,
       <<"Size:", Get(extra, "audio_size", 0), "bytes">>,
       <<"Characters:", Get(extra, "usage_characters", 0)>> >>

\* lines 96-100, then main() returns and the process ends with status 0
ReportSuccess ==
    /\ pc = "ReportSuccess"
    /\ stdout' = stdout \o Report(data, args)
    /\ effects' = Append(effects, "report")
    /\ pc' = "Done"
    /\ exitStatus' = 0
    /\ UNCHANGED <<environ, args, api_key, payload, req, data, audio_bytes,
                   fs, fs0, transport, wire, uncaught>>

Next ==
    \/ ParseArgs
    \/ ValidateConfig
    \/ BuildPayload
    \/ Send
    \/ CheckStatus
    \/ DecodeAudio
    \/ OpenFile
    \/ WriteFile
    \/ ReportSuccess

Spec == Init /\ [][Next]_vars

\* the interpreter runs the next statement of a process that has not ended;
\* urlopen returns or raises within its timeout
FairSpec == Spec /\ WF_vars(Next)

-----------------------------------------------------------------------------
(* Vocabulary of the properties, read off the inputs and the observable    *)
(* effects of a run rather than off the program's own intermediate values  *)

Terminated == pc \in {"Done", "Fail"}

KeyAbsent == "MINIMAX_API_KEY" \notin DOMAIN environ

KeyPresent == ~KeyAbsent /\ environ["MINIMAX_API_KEY"] # ""

\* empty, or nothing but whitespace
Blank(text) == \A i \in 1..Len(text) : text[i] \in WhitespaceChars

Count(tag) == Cardinality({i \in 1..Len(effects) : effects[i] = tag})

NoNetworkCall == wire = <<>> /\ Count("post") = 0

NoFileWritten == fs = fs0 /\ Count("open") = 0 /\ Count("write") = 0

GotJson == transport.kind = "json"

HasStatus ==
    /\ GotJson
    /\ "base_resp" \in DOMAIN transport.json
    /\ "status_code" \in DOMAIN transport.json.base_resp

HasStatusMsg ==
    /\ GotJson
    /\ "base_resp" \in DOMAIN transport.json
    /\ "status_msg" \in DOMAIN transport.json.base_resp

HasAudio ==
    /\ GotJson
    /\ "data" \in DOMAIN transport.json
    /\ "audio" \in DOMAIN transport.json.data

StatusIsZero == HasStatus /\ transport.json.base_resp.status_code = 0

\* lower case of a hex digit
FoldCase(c) ==
    IF \E i \in 1..16 : UpperHexDigits[i] = c
    THEN HexDigits[CHOOSE i \in 1..16 : UpperHexDigits[i] = c]
    ELSE c

\* s is the hex encoding of B, in either case
EncodesBytes(s, B) ==
    /\ Len(s) = 2 * Len(B)
    /\ \A i \in 1..Len(s) : FoldCase(s[i]) = HexEncode(B)[i]

NotSpace(c) == c \notin WhitespaceChars

\* s without its whitespace
Compact(s) == SelectSeq(s, NotSpace)

IsHexDigit(c) == \E i \in 1..16 : HexDigits[i] = FoldCase(c)

\* data.audio is, whitespace apart, an even number of hex digits: the widest
\* reading of "valid hex", which every string fromhex accepts satisfies
AudioIsHex ==
    /\ HasAudio
    /\ LET t == Compact(transport.json.data.audio) IN
       /\ Len(t) % 2 = 0
       /\ \A i \in 1..Len(t) : IsHexDigit(t[i])

\* the only file that differs from the start is the output file, holding B
OutputFileIs(B) ==
    /\ DOMAIN fs = DOMAIN fs0 \cup {args.output}
    /\ fs[args.output] = B
    /\ \A p \in DOMAIN fs0 \ {args.output} : fs[p] = fs0[p]

-----------------------------------------------------------------------------
(* C1: a run with the API key present, a text that is not blank and a      *)
(* response with status_code 0 whose data.audio is the hex encoding of a   *)
(* byte sequence B ends with the output file holding exactly B and with    *)
(* exit status 0.                                                          *)
C1_RoundTrip ==
    (Terminated /\ KeyPresent /\ ~Blank(args.text) /\ StatusIsZero /\ HasAudio)
    => \A B \in ByteSeqs :
          EncodesBytes(transport.json.data.audio, B)
          => /\ pc = "Done"
             /\ exitStatus = 0
             /\ uncaught = None
             /\ OutputFileIs(B)

C1_Witness ==
    /\ pc = "Done"
    /\ transport.json.data.audio = HexEncode(<<171, 15>>)
    /\ fs[args.output] = <<171, 15>>
    /\ fs0 # EmptyDict
    /\ exitStatus = 0

(* C2: when MINIMAX_API_KEY is absent from the environment, whatever the   *)
(* text is, no request is ever sent, no file is touched, the run stops at  *)
(* the configuration check and ends with exit status 1.                    *)
C2_MissingKey ==
    KeyAbsent
    => /\ NoNetworkCall
       /\ NoFileWritten
       /\ pc \in {"Start", "ValidateConfig", "Fail"}
       /\ pc = "Fail" => exitStatus = 1 /\ stdout = <<KeyDiagnostic>>

C2_Witness ==
    /\ KeyAbsent
    /\ pc = "Fail"
    /\ args.text = <<>>
    /\ exitStatus = 1

(* C3 as stated: a run whose text is empty or only whitespace sends no     *)
(* request, writes no file, ends with exit status 1 and prints a           *)
(* diagnostic other than the missing-key diagnostic.                       *)
C3_BlankTextOwnDiagnostic ==
    (Terminated /\ Blank(args.text))
    => /\ NoNetworkCall
       /\ NoFileWritten
       /\ exitStatus = 1
       /\ stdout # <<>>
       /\ \A i \in 1..Len(stdout) : stdout[i] # KeyDiagnostic

(* C3 amended: a run whose text is empty or only whitespace sends no       *)
(* request, writes no file and ends with exit status 1; when the API key   *)
(* is set it prints the empty-text diagnostic, which differs from the      *)
(* missing-key diagnostic, and when the key is missing or empty it prints  *)
(* the missing-key diagnostic instead.                                     *)
C3_BlankText ==
    (pc # "Start" /\ Blank(args.text))
    => /\ NoNetworkCall
       /\ NoFileWritten
       /\ pc \in {"ValidateConfig", "Fail"}
       /\ pc = "Fail"
          => /\ exitStatus = 1
             /\ uncaught = None
             /\ stdout = IF KeyPresent THEN <<EmptyTextDiagnostic>> ELSE <<KeyDiagnostic>>
             /\ EmptyTextDiagnostic # KeyDiagnostic

C3_Witness ==
    /\ pc = "Fail"
    /\ KeyPresent
    /\ args.text = <<" ", " ", " ">>
    /\ stdout = <<EmptyTextDiagnostic>>

(* C4: every transport failure of the POST (timeout, connection error,     *)
(* HTTP error status) is handled: no exception escapes, the HTTP status    *)
(* code and body are printed when there are any, no file is written and    *)
(* the exit status is 1.                                                   *)
C4_TransportFailureHandled ==
    (Terminated /\ transport.kind \in {"HTTPError", "URLError", "timeout"})
    => /\ uncaught = None
       /\ NoFileWritten
       /\ exitStatus = 1
       /\ transport.kind = "HTTPError"
          => stdout = << <<"ERROR: API returned", transport.code>>, <<transport.body>> >>

(* C5: a JSON response whose base_resp.status_code is present and not 0    *)
(* stops the run at the status check: status_msg, or "Unknown error" when  *)
(* status_msg is absent, is printed, no file is written, the exit status   *)
(* is 1 and exactly one request was sent.                                  *)
C5_ApiError ==
    (HasStatus /\ ~StatusIsZero)
    => /\ pc \in {"CheckStatus", "Fail"}
       /\ NoFileWritten
       /\ Len(wire) = 1
       /\ Count("post") = 1
       /\ pc = "Fail"
          => /\ exitStatus = 1
             /\ uncaught = None
             /\ stdout = << <<"ERROR:", IF HasStatusMsg
                                        THEN transport.json.base_resp.status_msg
                                        ELSE "Unknown error">> >>

C5_Witness ==
    /\ pc = "Fail"
    /\ HasStatus
    /\ transport.json.base_resp.status_code = 1004
    /\ ~HasStatusMsg
    /\ HasAudio
    /\ stdout = << <<"ERROR:", "Unknown error">> >>

(* C6: the output file is opened or changed only after the configuration   *)
(* checks passed, the POST returned JSON with status_code 0 and data.audio *)
(* was decoded in full; a response with status_code 0 whose data.audio is  *)
(* missing or is not valid hex ends in failure with the file system as it  *)
(* was at the start.                                                       *)
C6_WriteOnlyAfterDecode ==
    /\ ~NoFileWritten
       => /\ KeyPresent
          /\ ~Blank(args.text)
          /\ Len(wire) = 1
          /\ StatusIsZero
          /\ AudioIsHex
          /\ EncodesBytes(Compact(transport.json.data.audio), audio_bytes)
          /\ pc \in {"WriteFile", "ReportSuccess", "Done"}
    /\ (Terminated /\ StatusIsZero /\ ~AudioIsHex)
       => /\ pc = "Fail"
          /\ exitStatus = 1
          /\ NoFileWritten

C6_Witness ==
    /\ pc = "Fail"
    /\ StatusIsZero
    /\ HasAudio
    /\ transport.json.data.audio = <<"0", "g">>
    /\ fs0 # EmptyDict
    /\ uncaught = "ValueError"
(* C7: the request body is determined by the arguments: voice_setting has  *)
(* an emotion member exactly when --emotion was given, carrying the given  *)
(* value, and no emotion member at all otherwise; stream, vol, pitch,      *)
(* sample_rate, bitrate, format and channel always have their fixed        *)
(* values; the request that is sent is the one that was built.             *)
EmotionPath == <<"voice_setting", "emotion">>

FixedPaths ==
    {<<"model">>, <<"text">>, <<"stream">>,
     <<"voice_setting", "voice_id">>, <<"voice_setting", "speed">>,
     <<"voice_setting", "vol">>, <<"voice_setting", "pitch">>,
     <<"audio_setting", "sample_rate">>, <<"audio_setting", "bitrate">>,
     <<"audio_setting", "format">>, <<"audio_setting", "channel">>}

C7_Payload ==
    (DOMAIN req # {})
    => /\ EmotionPath \in DOMAIN req.body <=> args.emotion \in EmotionChoices
       /\ EmotionPath \in DOMAIN req.body => req.body[EmotionPath] = args.emotion
       /\ DOMAIN req.body \ {EmotionPath} = FixedPaths
       /\ req.body[<<"model">>] = args.model
       /\ req.body[<<"text">>] = args.text
       /\ req.body[<<"stream">>] = FALSE
       /\ req.body[<<"voice_setting", "voice_id">>] = args.voice
       /\ req.body[<<"voice_setting", "speed">>] = args.speed
       /\ req.body[<<"voice_setting", "vol">>] = "1.0"
       /\ req.body[<<"voice_setting", "pitch">>] = 0
       /\ req.body[<<"audio_setting", "sample_rate">>] = 32000
       /\ req.body[<<"audio_setting", "bitrate">>] = 128000
       /\ req.body[<<"audio_setting", "format">>] = "mp3"
       /\ req.body[<<"audio_setting", "channel">>] = 1
       /\ \A i \in 1..Len(wire) : wire[i] = req

C7_Witness ==
    /\ Len(wire) = 1
    /\ args.emotion = None
    /\ EmotionPath \notin DOMAIN wire[1].body
    /\ wire[1].body[<<"voice_setting", "voice_id">>] = "presenter_female"

(* C8: after a response with status_code 0 and hex data.audio the report   *)
(* is printed and the run ends with exit status 0 whichever members        *)
(* extra_info has: duration, size and characters are each the member's     *)
(* value when it is present and 0 when it, or extra_info itself, is        *)
(* absent.                                                                 *)
ExtraField(k) ==
    IF "extra_info" \in DOMAIN transport.json /\ k \in DOMAIN transport.json.extra_info
    THEN transport.json.extra_info[k]
    ELSE 0

C8_ReportDefaults ==
    /\ (Terminated /\ KeyPresent /\ ~Blank(args.text) /\ StatusIsZero /\ HasAudio
           /\ \E B \in ByteSeqs : EncodesBytes(transport.json.data.audio, B))
       => pc = "Done"
    /\ pc = "Done"
       => /\ exitStatus = 0
          /\ uncaught = None
          /\ Len(stdout) = 4
          /\ stdout[1] = <<"SUCCESS: Audio saved to", <<"cwd", args.output>> >>
          /\ stdout[2] = <<"Duration:", ExtraField("audio_length"), "ms">>
          /\ stdout[3] = <<"Size:", ExtraField("audio_size"), "bytes">>
          /\ stdout[4] = <<"Characters:", ExtraField("usage_characters")>>

C8_Witness ==
    /\ pc = "Done"
    /\ "extra_info" \notin DOMAIN transport.json
    /\ stdout[2] = <<"Duration:", 0, "ms">>
    /\ stdout[3] = <<"Size:", 0, "bytes">>
    /\ stdout[4] = <<"Characters:", 0>>
    /\ exitStatus = 0

(* C9: a run moves through Start, ValidateConfig, BuildPayload, Send,      *)
(* CheckStatus, DecodeAudio, WriteFile (open, then write), ReportSuccess   *)
(* in this order, each step taken at most once, or leaves the sequence for *)
(* Fail; the side effects are a prefix of one request, one open, one       *)
(* write, one report, in this order; nothing happens after Fail; and every *)
(* run ends, having reported success or failed.                            *)
PcOrder == <<"Start", "ValidateConfig", "BuildPayload", "Send", "CheckStatus",
             "DecodeAudio", "OpenFile", "WriteFile", "ReportSuccess", "Done">>

Rank(p) == CHOOSE i \in 1..Len(PcOrder) : PcOrder[i] = p

LinearStep ==
    /\ pc # "Fail"
    /\ pc # "Done"
    /\ \/ pc' = "Fail"
       \/ pc' # "Fail" /\ Rank(pc') = Rank(pc) + 1

EffectOrder == <<"post", "open", "write", "report">>

EffectsInOrder ==
    /\ Len(effects) <= Len(EffectOrder)
    /\ effects = SubSeq(EffectOrder, 1, Len(effects))
    /\ Len(wire) = Count("post")
    /\ Len(wire) <= 1
    /\ fs # fs0 => Count("post") = 1 /\ Count("open") = 1
    /\ pc = "Fail" => Count("report") = 0 /\ exitStatus = 1
    /\ pc = "Done" => Count("report") = 1 /\ exitStatus = 0

C9_LinearRun ==
    /\ []EffectsInOrder
    /\ [][LinearStep]_vars
    /\ [][pc = "Fail" => UNCHANGED <<wire, fs, effects, stdout>>]_vars
    /\ <>Terminated

C9_Witness ==
    /\ pc = "Done"
    /\ effects = EffectOrder
    /\ Len(wire) = 1
    /\ fs # fs0

(* C10: a JSON response without base_resp, or whose base_resp has no       *)
(* status_code, is a failure: the run stops at the status check, prints    *)
(* status_msg or "Unknown error", writes no file even when data.audio is   *)
(* valid, and ends with exit status 1; the file system changes only when   *)
(* status_code is present and 0.                                           *)
C10_MissingStatus ==
    /\ (GotJson /\ ~HasStatus)
       => /\ pc \in {"CheckStatus", "Fail"}
          /\ NoFileWritten
          /\ pc = "Fail"
             => /\ exitStatus = 1
                /\ stdout = << <<"ERROR:", IF HasStatusMsg
                                           THEN transport.json.base_resp.status_msg
                                           ELSE "Unknown error">> >>
    /\ ~NoFileWritten => StatusIsZero

C10_Witness ==
    /\ pc = "Fail"
    /\ GotJson
    /\ "base_resp" \notin DOMAIN transport.json
    /\ HasAudio
    /\ transport.json.data.audio = HexEncode(<<171, 15>>)
    /\ stdout = << <<"ERROR:", "Unknown error">> >>
    /\ exitStatus = 1

====
